---- MODULE Spec2Model ----
(***************************************************************************)
(* A model of the ingress node's admission controller (pkg/stats),         *)
(* per-ingress handler (pkg/service) and RTMP publish-session handler      *)
(* (pkg/rtmp).                                                             *)
(*                                                                         *)
(* CPU quantities are float64 "core equivalents" in the source; the model  *)
(* keeps them as integers counted in tenths of a core (2.0 cores = 20).    *)
(***************************************************************************)
EXTENDS Integers, Sequences, FiniteSets, TLC

\* ------------------------------------------------------------------ bounds

\* Number of AcceptIngress calls a behaviour may issue (they may overlap).
MaxCalls == 3

\* ---------------------------------------------------- admission controller

VARIABLES
    monitor,        \* "new" | "started" | "failed": NewMonitor / Start's outcome
    conf,           \* conf.CPUCost, the configuration handed to Start
    cpuCostConfig,  \* Monitor.cpuCostConfig
    maxCost,        \* Monitor.maxCost
    numCPU,         \* cpuStats.NumCPU(), in tenths of a core
    idle,           \* cpuStats.GetCPUIdle(), the current sample, in tenths
    pendingCPUs,    \* Monitor.pendingCPUs
    calls           \* the AcceptIngress calls, by call number

monVars == <<monitor, conf, cpuCostConfig, maxCost, numCPU, idle, pendingCPUs, calls>>

\* The per-ingress handler (pkg/service).
VARIABLES
    hpc,            \* HandleIngress: "new" | "building" | "watching" | "returned"
    buildErr,       \* the error buildPipeline returned, "none" when it built
    pipeline,       \* Handler.pipeline: "nil" | "p"
    pipelineState,  \* the IngressInfo.State the session's info / pipeline holds
    runner,         \* the goroutine of lines 49-52: "none" | "running" | "sent" | "finished"
    result,         \* the result channel (capacity 1)
    kill,           \* Handler.kill: the fuse is broken
    done,           \* Handler.done: the fuse is broken
    killCh,         \* HandleIngress's local kill: "unset" | "watch" | "nil"
    eosCount,       \* number of p.SendEOS calls
    published,      \* the rpcClient.UpdateIngressState calls, in order
    callers         \* the Kill / UpdateIngress / DeleteIngress calls, by number

sessionVars ==
    <<hpc, buildErr, pipeline, pipelineState, runner, result, kill, done,
      killCh, eosCount, published>>

hVars == <<sessionVars, callers>>

\* The RTMP server and its per-connection handlers (pkg/rtmp).
VARIABLES
    writers,        \* RTMPServer.writers: stream key -> the connection whose sink is stored
    conns           \* the connections and their Handler, by number

rVars == <<writers, conns>>

CallIds == 1..MaxCalls

\* config.CPUCostConfig; the zero value is what &Monitor{} holds.
CPUCostConfig(rtmp, whip, bypass) ==
    [RTMPCpuCost |-> rtmp, WHIPCpuCost |-> whip, WHIPBypassTranscodingCpuCost |-> bypass]

ZeroCostConfig == CPUCostConfig(0, 0, 0)

\* RTMP 2.0, WHIP 2.0, WHIP with transcoding bypassed 0.1
ScenarioConf == CPUCostConfig(20, 20, 1)

\* The configurations Start is tried with: the scenario's, one with three
\* different costs, one whose largest cost exceeds a 4 core node and whose RTMP
\* cost is below the minimum of 1 that checkCPUConfig warns about, and one whose
\* smallest cost exceeds a 4 core node.
Configs ==
    { ScenarioConf, CPUCostConfig(10, 30, 1), CPUCostConfig(5, 60, 1),
      CPUCostConfig(80, 60, 50) }

NumCPUs == { 40 }

\* Idle samples: nothing idle, exactly the scenario's largest cost, the scenario's 3.0
IdleSamples == { 0, 20, 30 }

\* The (InputType, BypassTranscoding) pairs of livekit.IngressInfo tried.
Infos ==
    { [InputType |-> "RTMP_INPUT", BypassTranscoding |-> FALSE],
      [InputType |-> "WHIP_INPUT", BypassTranscoding |-> FALSE],
      [InputType |-> "WHIP_INPUT", BypassTranscoding |-> TRUE],
      [InputType |-> "URL_INPUT", BypassTranscoding |-> FALSE] }

NoInfo == [InputType |-> "none", BypassTranscoding |-> FALSE]

Min2(a, b) == IF a < b THEN a ELSE b
Max2(a, b) == IF a < b THEN b ELSE a

\* sort.Float64s(requirements); requirements[0] and requirements[len-1]
MinRequirement(c) ==
    Min2(c.RTMPCpuCost, Min2(c.WHIPCpuCost, c.WHIPBypassTranscodingCpuCost))

MaxRequirement(c) ==
    Max2(c.RTMPCpuCost, Max2(c.WHIPCpuCost, c.WHIPBypassTranscodingCpuCost))

\* The capacity test of line 121 made against the largest requirement.
CheckCPUConfigFailsBelowMax(c, n) == n < MaxRequirement(c)

\* checkCPUConfig's verdict: ErrServerCapacityExceeded or nil
CheckCPUConfigFails(c, n) == n < MinRequirement(c)

NewCall ==
    [pc |-> "new", info |-> NoInfo, available |-> 0, accept |-> FALSE,
     cpuHold |-> 0, timer |-> "none", sequential |-> FALSE]

MonitorInit ==
    /\ monitor = "new"
    /\ conf = ZeroCostConfig
    /\ cpuCostConfig = ZeroCostConfig
    /\ maxCost = 0
    /\ numCPU \in NumCPUs
    /\ idle \in { i \in IdleSamples : i <= numCPU }
    /\ pendingCPUs = 0
    /\ calls = [c \in CallIds |-> NewCall]

\* Monitor.Start: checkCPUConfig stores maxCost (before its capacity test) and
\* nothing else; Monitor.cpuCostConfig is assigned nowhere.
Start(c) ==
    /\ monitor = "new"
    /\ conf' = c
    /\ maxCost' = MaxRequirement(c)
    /\ monitor' = IF CheckCPUConfigFails(c, numCPU) THEN "failed" ELSE "started"
    /\ UNCHANGED <<cpuCostConfig, numCPU, idle, pendingCPUs, calls>>
    /\ UNCHANGED <<hVars, rVars>>

\* Monitor.CanAcceptIngress
CanAcceptIngress == idle - pendingCPUs > maxCost

\* The cost AcceptIngress's switch selects for an info; 0 (the zero value of
\* cpuHold) for an unsupported input type.
CpuHold(info) ==
    CASE info.InputType = "RTMP_INPUT" -> cpuCostConfig.RTMPCpuCost
      [] info.InputType = "WHIP_INPUT" /\ info.BypassTranscoding ->
            cpuCostConfig.WHIPBypassTranscodingCpuCost
      [] info.InputType = "WHIP_INPUT" /\ ~info.BypassTranscoding ->
            cpuCostConfig.WHIPCpuCost
      [] OTHER -> 0

\* The switch with its RTMP case only: a WHIP info falls to the default.
AcceptRTMPOnly(info, available) ==
    /\ info.InputType = "RTMP_INPUT"
    /\ available > CpuHold(info)

\* The switch's accept: strict greater-than; false for an unsupported type.
Accept(info, available) ==
    /\ info.InputType \in {"RTMP_INPUT", "WHIP_INPUT"}
    /\ available > CpuHold(info)

\* AcceptIngress, line 156: available := GetCPUIdle() - pendingCPUs.Load().
\* Calls are numbered in the order they start; sequential records whether every
\* earlier call had returned when this one started.
AcceptIngressLoad(c, info) ==
    /\ monitor = "started"
    /\ calls[c].pc = "new"
    /\ \A d \in CallIds : d < c => calls[d].pc # "new"
    /\ calls' = [calls EXCEPT ![c] =
                    [@ EXCEPT !.pc = "loaded", !.info = info,
                              !.available = idle - pendingCPUs,
                              !.sequential =
                                \A d \in CallIds : d < c => calls[d].pc = "returned"]]
    /\ UNCHANGED <<monitor, conf, cpuCostConfig, maxCost, numCPU, idle, pendingCPUs>>
    /\ UNCHANGED <<hVars, rVars>>

\* AcceptIngressDecide without the time.AfterFunc of line 177: the reservation
\* is added and nothing is scheduled to release it.
AcceptIngressDecideNoTimer(c) ==
    /\ calls[c].pc = "loaded"
    /\ LET info == calls[c].info
           accept == Accept(info, calls[c].available)
           hold == CpuHold(info)
       IN /\ calls' = [calls EXCEPT ![c] =
                        [@ EXCEPT !.pc = "returned", !.accept = accept,
                                  !.cpuHold = hold]]
          /\ pendingCPUs' = IF accept THEN pendingCPUs + hold ELSE pendingCPUs
    /\ UNCHANGED <<monitor, conf, cpuCostConfig, maxCost, numCPU, idle>>
    /\ UNCHANGED <<hVars, rVars>>

\* AcceptIngress, lines 158-181: the switch, then on accept pendingCPUs.Add and
\* time.AfterFunc, then return accept.
AcceptIngressDecide(c) ==
    /\ calls[c].pc = "loaded"
    /\ LET info == calls[c].info
           accept == Accept(info, calls[c].available)
           hold == CpuHold(info)
       IN /\ calls' = [calls EXCEPT ![c] =
                        [@ EXCEPT !.pc = "returned", !.accept = accept,
                                  !.cpuHold = hold,
                                  !.timer = IF accept THEN "armed" ELSE "none"]]
          /\ pendingCPUs' = IF accept THEN pendingCPUs + hold ELSE pendingCPUs
    /\ UNCHANGED <<monitor, conf, cpuCostConfig, maxCost, numCPU, idle>>
    /\ UNCHANGED <<hVars, rVars>>

\* The time.AfterFunc callback of line 177: m.pendingCPUs.Sub(cpuHold)
ReservationTimer(c) ==
    /\ calls[c].timer = "armed"
    /\ pendingCPUs' = pendingCPUs - calls[c].cpuHold
    /\ calls' = [calls EXCEPT ![c] = [@ EXCEPT !.timer = "fired"]]
    /\ UNCHANGED <<monitor, conf, cpuCostConfig, maxCost, numCPU, idle>>
    /\ UNCHANGED <<hVars, rVars>>

MonitorNext ==
    \/ \E c \in Configs : Start(c)
    \/ \E c \in CallIds, info \in Infos : AcceptIngressLoad(c, info)
    \/ \E c \in CallIds : AcceptIngressDecide(c)
    \/ \E c \in CallIds : ReservationTimer(c)

\* ------------------------------------------------------- ingress handler

\* Number of Kill / UpdateIngress / DeleteIngress calls a behaviour may issue.
MaxRPC == 2

RpcIds == 1..MaxRPC

\* livekit.IngressState, as far as the handler reads it: Status and Error.
IngressState(status, error) == [Status |-> status, Error |-> error]

\* The zero value of the status enum is ENDPOINT_INACTIVE.
InitialState == IngressState("ENDPOINT_INACTIVE", "")

\* What params.GetParams / media.New fail with.
BuildOutcomes == { "none", "params error", "pipeline error" }

\* The states Pipeline.Run ends with.
FinalStates ==
    { IngressState("ENDPOINT_INACTIVE", ""), IngressState("ENDPOINT_ERROR", "run error") }

NewCaller ==
    [pc |-> "new", op |-> "none", phase |-> "none", ctxDone |-> FALSE,
     state |-> "nil", err |-> "nil"]

HandlerInit ==
    /\ hpc = "new"
    /\ buildErr = "none"
    /\ pipeline = "nil"
    /\ pipelineState = InitialState
    /\ runner = "none"
    /\ result = <<>>
    /\ kill = FALSE
    /\ done = FALSE
    /\ killCh = "unset"
    /\ eosCount = 0
    /\ published = <<>>
    /\ callers = [c \in RpcIds |-> NewCaller]

\* Handler.sendUpdate: one UpdateIngressState call carrying info.State; its
\* error is logged and otherwise ignored.
SendUpdate(by, state, delivered) ==
    Append(published, [by |-> by, state |-> state, delivered |-> delivered])

\* HandleIngress is entered (lines 36-40).
HandleIngress ==
    /\ hpc = "new"
    /\ hpc' = "building"
    /\ UNCHANGED <<buildErr, pipeline, pipelineState, runner, result, kill, done,
                   killCh, eosCount, published, callers>>
    /\ UNCHANGED <<monVars, rVars>>

\* buildPipeline without the sendUpdate of line 121.
BuildPipelineSilent(outcome, delivered) ==
    /\ hpc = "building"
    /\ buildErr' = outcome
    /\ IF outcome # "none"
       THEN /\ pipelineState' = IngressState("ENDPOINT_ERROR", outcome)
            /\ hpc' = "returned"
            /\ UNCHANGED <<pipeline, runner, killCh, published>>
       ELSE /\ pipeline' = "p"
            /\ runner' = "running"
            /\ killCh' = "watch"
            /\ hpc' = "watching"
            /\ UNCHANGED <<pipelineState, published>>
    /\ UNCHANGED <<result, kill, done, eosCount, callers>>
    /\ UNCHANGED <<monVars, rVars>>

\* buildPipeline and what HandleIngress does with its result (lines 40-54,
\* 102-127). On an error: State.Error and State.Status are set, the update is
\* sent and HandleIngress returns. Otherwise h.pipeline is set, the goroutine
\* running p.Run is started and the kill fuse is watched.
BuildPipeline(outcome, delivered) ==
    /\ hpc = "building"
    /\ buildErr' = outcome
    /\ IF outcome # "none"
       THEN /\ pipelineState' = IngressState("ENDPOINT_ERROR", outcome)
            /\ published' = SendUpdate("routine", pipelineState', delivered)
            /\ hpc' = "returned"
            /\ UNCHANGED <<pipeline, runner, killCh>>
       ELSE /\ pipeline' = "p"
            /\ runner' = "running"
            /\ killCh' = "watch"
            /\ hpc' = "watching"
            /\ UNCHANGED <<pipelineState, published>>
    /\ UNCHANGED <<result, kill, done, eosCount, callers>>
    /\ UNCHANGED <<monVars, rVars>>

\* The pipeline reports a status change through the callback registered by
\* p.OnStatusUpdate(h.sendUpdate) while Run is in progress.
PipelineStatusUpdate(delivered) ==
    /\ runner = "running"
    /\ pipelineState.Status = "ENDPOINT_INACTIVE"
    /\ pipelineState' = IngressState("ENDPOINT_PUBLISHING", "")
    /\ published' = SendUpdate("pipeline", pipelineState', delivered)
    /\ UNCHANGED <<hpc, buildErr, pipeline, runner, result, kill, done, killCh,
                   eosCount, callers>>
    /\ UNCHANGED <<monVars, rVars>>

\* Line 50: p.Run returns the info with its final state, which goes into the
\* result channel.
PipelineRunReturns(final) ==
    /\ runner = "running"
    /\ pipelineState' = final
    /\ result' = <<final>>
    /\ runner' = "sent"
    /\ UNCHANGED <<hpc, buildErr, pipeline, kill, done, killCh, eosCount,
                   published, callers>>
    /\ UNCHANGED <<monVars, rVars>>

\* Line 51: h.done.Break()
RunnerBreakDone ==
    /\ runner = "sent"
    /\ done' = TRUE
    /\ runner' = "finished"
    /\ UNCHANGED <<hpc, buildErr, pipeline, pipelineState, result, kill, killCh,
                   eosCount, published, callers>>
    /\ UNCHANGED <<monVars, rVars>>

\* The select's kill case stopping the session at once: the current state is
\* sent and HandleIngress returns without the pipeline's result.
HandleKillSignalReturns ==
    /\ hpc = "watching"
    /\ killCh = "watch"
    /\ kill
    /\ killCh' = "nil"
    /\ published' = SendUpdate("routine", pipelineState, TRUE)
    /\ hpc' = "returned"
    /\ UNCHANGED <<buildErr, pipeline, pipelineState, runner, result, kill, done,
                   eosCount, callers>>
    /\ UNCHANGED <<monVars, rVars>>

\* The select's kill case with line 61 left out: the closed channel stays in
\* the select.
HandleKillSignalKeepWatching ==
    /\ hpc = "watching"
    /\ killCh = "watch"
    /\ kill
    /\ eosCount < 3
    /\ eosCount' = eosCount + 1
    /\ UNCHANGED <<hpc, buildErr, pipeline, pipelineState, runner, result, kill,
                   done, killCh, published, callers>>
    /\ UNCHANGED <<monVars, rVars>>

\* Lines 58-61: the select's kill case: p.SendEOS, then kill = nil.
HandleKillSignal ==
    /\ hpc = "watching"
    /\ killCh = "watch"
    /\ kill
    /\ eosCount' = eosCount + 1
    /\ killCh' = "nil"
    /\ UNCHANGED <<hpc, buildErr, pipeline, pipelineState, runner, result, kill,
                   done, published, callers>>
    /\ UNCHANGED <<monVars, rVars>>

\* The select's result case reporting a session that was killed as failed.
HandleResultKilledIsError(delivered) ==
    /\ hpc = "watching"
    /\ result # <<>>
    /\ published' = SendUpdate("routine",
                               IF kill THEN IngressState("ENDPOINT_ERROR", "killed")
                                       ELSE Head(result),
                               delivered)
    /\ result' = <<>>
    /\ hpc' = "returned"
    /\ UNCHANGED <<buildErr, pipeline, pipelineState, runner, kill, done, killCh,
                   eosCount, callers>>
    /\ UNCHANGED <<monVars, rVars>>

\* The select's result case sending the update again until it is delivered.
HandleResultRetry(delivered) ==
    /\ hpc = "watching"
    /\ result # <<>>
    /\ published' = SendUpdate("routine", Head(result), delivered)
    /\ result' = IF delivered THEN <<>> ELSE result
    /\ hpc' = IF delivered THEN "returned" ELSE "watching"
    /\ UNCHANGED <<buildErr, pipeline, pipelineState, runner, kill, done, killCh,
                   eosCount, callers>>
    /\ UNCHANGED <<monVars, rVars>>

\* Lines 63-66: the select's result case: sendUpdate(res), return.
HandleResult(delivered) ==
    /\ hpc = "watching"
    /\ result # <<>>
    /\ published' = SendUpdate("routine", Head(result), delivered)
    /\ result' = <<>>
    /\ hpc' = "returned"
    /\ UNCHANGED <<buildErr, pipeline, pipelineState, runner, kill, done, killCh,
                   eosCount, callers>>
    /\ UNCHANGED <<monVars, rVars>>

\* Where the session is when a call arrives.
Phase ==
    CASE hpc \in {"new", "building"} -> "before"
      [] hpc = "returned" /\ runner = "none" -> "build failed"
      [] runner = "running" -> "running"
      [] OTHER -> "finishing"

\* Calls are numbered in the order they arrive.
Arrives(c) ==
    /\ callers[c].pc = "new"
    /\ \A d \in RpcIds : d < c => callers[d].pc # "new"

\* Handler.Kill, called on its own: h.kill.Break().
Kill(c) ==
    /\ Arrives(c)
    /\ kill' = TRUE
    /\ callers' = [callers EXCEPT ![c] =
                    [@ EXCEPT !.pc = "returned", !.op = "Kill", !.phase = Phase]]
    /\ UNCHANGED <<hpc, buildErr, pipeline, pipelineState, runner, result, done,
                   killCh, eosCount, published>>
    /\ UNCHANGED <<monVars, rVars>>

\* killAndReturnState, line 72: h.Kill(), then the call waits in the select.
KillAndWait(c, op) ==
    /\ Arrives(c)
    /\ kill' = TRUE
    /\ callers' = [callers EXCEPT ![c] =
                    [@ EXCEPT !.pc = "waiting", !.op = op, !.phase = Phase]]
    /\ UNCHANGED <<hpc, buildErr, pipeline, pipelineState, runner, result, done,
                   killCh, eosCount, published>>
    /\ UNCHANGED <<monVars, rVars>>

UpdateIngress(c) == KillAndWait(c, "UpdateIngress")

DeleteIngress(c) == KillAndWait(c, "DeleteIngress")

\* The caller's context expires or is cancelled.
CtxExpire(c) ==
    /\ callers[c].pc = "waiting"
    /\ ~callers[c].ctxDone
    /\ callers' = [callers EXCEPT ![c] = [@ EXCEPT !.ctxDone = TRUE]]
    /\ UNCHANGED sessionVars
    /\ UNCHANGED <<monVars, rVars>>

\* The timeout return that also marks the session done.
ReturnCtxErrBreaksDone(c) ==
    /\ callers[c].pc = "waiting"
    /\ callers[c].ctxDone
    /\ callers' = [callers EXCEPT ![c] = [@ EXCEPT !.pc = "returned", !.err = "ctx"]]
    /\ done' = TRUE
    /\ UNCHANGED <<hpc, buildErr, pipeline, pipelineState, runner, result, kill,
                   killCh, eosCount, published>>
    /\ UNCHANGED <<monVars, rVars>>

\* Lines 74-75: the select's ctx.Done case: return nil, ctx.Err().
ReturnCtxErr(c) ==
    /\ callers[c].pc = "waiting"
    /\ callers[c].ctxDone
    /\ callers' = [callers EXCEPT ![c] = [@ EXCEPT !.pc = "returned", !.err = "ctx"]]
    /\ UNCHANGED sessionVars
    /\ UNCHANGED <<monVars, rVars>>

\* h.pipeline.State; dereferencing a nil h.pipeline panics.
ReadPipelineState == IF pipeline = "nil" THEN "panic" ELSE pipelineState

\* The select waiting on the kill fuse instead of the done fuse.
ReturnStateOnKill(c) ==
    /\ callers[c].pc = "waiting"
    /\ kill
    /\ callers' = [callers EXCEPT ![c] =
                    [@ EXCEPT !.pc = "returned", !.state = ReadPipelineState]]
    /\ UNCHANGED sessionVars
    /\ UNCHANGED <<monVars, rVars>>

\* Lines 76-77: the select's done case: return h.pipeline.State, nil.
ReturnState(c) ==
    /\ callers[c].pc = "waiting"
    /\ done
    /\ callers' = [callers EXCEPT ![c] =
                    [@ EXCEPT !.pc = "returned", !.state = ReadPipelineState]]
    /\ UNCHANGED sessionVars
    /\ UNCHANGED <<monVars, rVars>>

HandlerNext ==
    \/ HandleIngress
    \/ \E o \in BuildOutcomes, d \in BOOLEAN : BuildPipeline(o, d)
    \/ \E d \in BOOLEAN : PipelineStatusUpdate(d)
    \/ \E f \in FinalStates : PipelineRunReturns(f)
    \/ RunnerBreakDone
    \/ HandleKillSignal
    \/ \E d \in BOOLEAN : HandleResult(d)
    \/ \E c \in RpcIds : Kill(c)
    \/ \E c \in RpcIds : UpdateIngress(c)
    \/ \E c \in RpcIds : DeleteIngress(c)
    \/ \E c \in RpcIds : CtxExpire(c)
    \/ \E c \in RpcIds : ReturnCtxErr(c)
    \/ \E c \in RpcIds : ReturnState(c)


\* ---------------------------------------------------- RTMP publish session

\* Number of audio / video / metadata messages a behaviour may deliver, over
\* all connections.
MaxMsgs == 3

\* Two connections: enough for two publishers of one stream key.
ConnIds == { 1, 2 }

\* The publishing names tried; "" is the empty stream key.
Keys == { "key1", "key2" }

NoConn == 0

\* The stream keys the info service resolves to an ingress; "key2" is unknown.
KnownKeys == { "key1" }

\* What can happen to one audio or video message inside its handler.
MediaOutcomes == { "ok", "decode error", "copy error", "encode error" }

\* What can happen to one metadata message inside OnSetDataFrame.
ScriptOutcomes == { "ok", "decode error", "encode error" }

\* The timestamp of a connection's n-th message.
Timestamp(n) == 40 * n

\* flvtag.FlvTag, as far as the handler fills it.
FlvTag(type, ts) == [TagType |-> type, Timestamp |-> ts]

\* A connection before OnConnect: no Handler yet.
NewConn ==
    [state |-> "none", ingressId |-> "", flvEnc |-> FALSE, msgs |-> <<>>,
     out |-> <<>>, cause |-> "none"]

RtmpInit ==
    /\ writers = [k \in Keys |-> NoConn]
    /\ conns = [c \in ConnIds |-> NewConn]

\* Lines 52-69: a connection is accepted and gets its Handler. Connections are
\* numbered in the order they are accepted.
OnConnect(c) ==
    /\ conns[c].state = "none"
    /\ \A d \in ConnIds : d < c => conns[d].state # "none"
    /\ conns' = [conns EXCEPT ![c] = [@ EXCEPT !.state = "AwaitingPublish"]]
    /\ UNCHANGED writers
    /\ UNCHANGED <<monVars, hVars>>

\* A handler returned an error or the peer went away: the connection is closed
\* and Handler.OnClose runs, which logs and does nothing else.
OnClose(conn, cause) == [conn EXCEPT !.state = "Closed", !.cause = cause]

RECURSIVE MsgCount(_)
MsgCount(S) ==
    IF S = {} THEN 0
    ELSE LET c == CHOOSE x \in S : TRUE
         IN Len(conns[c].msgs) + MsgCount(S \ {c})

\* A media message can be delivered to a streaming connection.
CanReceive(c) ==
    /\ conns[c].state = "Streaming"
    /\ MsgCount(ConnIds) < MaxMsgs

\* A message received: kept for comparison with what was written.
Received(conn, type, outcome) ==
    Append(conn.msgs,
           [TagType |-> type, Timestamp |-> Timestamp(Len(conn.msgs) + 1),
            outcome |-> outcome])

\* OnPublish without the check of lines 102-104.
OnPublishUnchecked(c, name) ==
    /\ conns[c].state = "AwaitingPublish"
    /\ conns' = [conns EXCEPT ![c] =
                    [@ EXCEPT !.ingressId = name, !.state = "Publishing",
                              !.cause = IF name = "" THEN "empty key" ELSE @]]
    /\ writers' = IF name \in Keys THEN [writers EXCEPT ![name] = c] ELSE writers
    /\ UNCHANGED <<monVars, hVars>>

\* OnPublish creating the encoder where line 114 hands the sink over.
OnPublishEncoderFirst(c, name) ==
    /\ conns[c].state = "AwaitingPublish"
    /\ IF name = ""
       THEN conns' = [conns EXCEPT ![c] = OnClose(@, "empty key")]
       ELSE conns' = [conns EXCEPT ![c] =
                        [@ EXCEPT !.ingressId = name, !.flvEnc = TRUE,
                                  !.state = "Publishing"]]
    /\ UNCHANGED writers
    /\ UNCHANGED <<monVars, hVars>>

\* Handler.OnPublish, lines 100-114: an empty PublishingName is an error;
\* otherwise the ingress id is set and the sink is stored through onPublish
\* (lines 56-58). The handler is then still inside OnPublish ("Publishing").
OnPublish(c, name) ==
    /\ conns[c].state = "AwaitingPublish"
    /\ IF name = ""
       THEN /\ conns' = [conns EXCEPT ![c] = OnClose(@, "empty key")]
            /\ UNCHANGED writers
       ELSE /\ conns' = [conns EXCEPT ![c] =
                            [@ EXCEPT !.ingressId = name, !.state = "Publishing"]]
            /\ writers' = [writers EXCEPT ![name] = c]
    /\ UNCHANGED <<monVars, hVars>>

\* Handler.OnPublish, lines 116-122: the encoder is created on the sink and
\* OnPublish returns (NoopWriter.Write never fails, so flv.NewEncoder does not).
\* Only now does the connection's goroutine read the next message.
NewEncoder(c) ==
    /\ conns[c].state = "Publishing"
    /\ conns' = [conns EXCEPT ![c] = [@ EXCEPT !.flvEnc = TRUE, !.state = "Streaming"]]
    /\ UNCHANGED writers
    /\ UNCHANGED <<monVars, hVars>>

\* OnSetDataFrame returning its errors, as OnAudio returns a decode error.
OnSetDataFrameReturnsErr(c, outcome) ==
    /\ CanReceive(c)
    /\ LET conn == [conns[c] EXCEPT !.msgs = Received(conns[c], "ScriptData", outcome)]
           ts == Timestamp(Len(conn.msgs))
       IN conns' = [conns EXCEPT ![c] =
                IF outcome = "ok"
                THEN [conn EXCEPT !.out = Append(@, FlvTag("ScriptData", ts))]
                ELSE OnClose(conn, "script " \o outcome)]
    /\ UNCHANGED writers
    /\ UNCHANGED <<monVars, hVars>>

\* Handler.OnSetDataFrame: a decode error is ignored, an encode error is logged.
OnSetDataFrame(c, outcome) ==
    /\ CanReceive(c)
    /\ LET conn == [conns[c] EXCEPT !.msgs = Received(conns[c], "ScriptData", outcome)]
           ts == Timestamp(Len(conn.msgs))
       IN conns' = [conns EXCEPT ![c] =
                IF outcome = "ok"
                THEN [conn EXCEPT !.out = Append(@, FlvTag("ScriptData", ts))]
                ELSE conn]
    /\ UNCHANGED writers
    /\ UNCHANGED <<monVars, hVars>>

\* OnAudio with the decode error ignored, as OnSetDataFrame ignores it.
OnAudioSkipsUndecodable(c, outcome) ==
    /\ CanReceive(c)
    /\ LET conn == [conns[c] EXCEPT !.msgs = Received(conns[c], "Audio", outcome)]
           ts == Timestamp(Len(conn.msgs))
       IN conns' = [conns EXCEPT ![c] =
                CASE outcome = "copy error" -> OnClose(conn, "audio copy error")
                  [] outcome = "ok" -> [conn EXCEPT !.out = Append(@, FlvTag("Audio", ts))]
                  [] OTHER -> conn]
    /\ UNCHANGED writers
    /\ UNCHANGED <<monVars, hVars>>

\* Handler.OnAudio: a decode or copy error is returned; an encode error is logged.
OnAudio(c, outcome) ==
    /\ CanReceive(c)
    /\ LET conn == [conns[c] EXCEPT !.msgs = Received(conns[c], "Audio", outcome)]
           ts == Timestamp(Len(conn.msgs))
       IN conns' = [conns EXCEPT ![c] =
                CASE outcome = "decode error" -> OnClose(conn, "audio decode error")
                  [] outcome = "copy error" -> OnClose(conn, "audio copy error")
                  [] outcome = "ok" -> [conn EXCEPT !.out = Append(@, FlvTag("Audio", ts))]
                  [] OTHER -> conn]
    /\ UNCHANGED writers
    /\ UNCHANGED <<monVars, hVars>>

\* OnVideo writing its tag ahead of the tags already written.
OnVideoWritesFirst(c, outcome) ==
    /\ CanReceive(c)
    /\ LET conn == [conns[c] EXCEPT !.msgs = Received(conns[c], "Video", outcome)]
           ts == Timestamp(Len(conn.msgs))
       IN conns' = [conns EXCEPT ![c] =
                CASE outcome = "decode error" -> OnClose(conn, "video decode error")
                  [] outcome = "copy error" -> OnClose(conn, "video copy error")
                  [] outcome = "ok" -> [conn EXCEPT !.out = <<FlvTag("Video", ts)>> \o @]
                  [] OTHER -> conn]
    /\ UNCHANGED writers
    /\ UNCHANGED <<monVars, hVars>>

\* Handler.OnVideo: a decode or copy error is returned; an encode error is logged.
OnVideo(c, outcome) ==
    /\ CanReceive(c)
    /\ LET conn == [conns[c] EXCEPT !.msgs = Received(conns[c], "Video", outcome)]
           ts == Timestamp(Len(conn.msgs))
       IN conns' = [conns EXCEPT ![c] =
                CASE outcome = "decode error" -> OnClose(conn, "video decode error")
                  [] outcome = "copy error" -> OnClose(conn, "video copy error")
                  [] outcome = "ok" -> [conn EXCEPT !.out = Append(@, FlvTag("Video", ts))]
                  [] OTHER -> conn]
    /\ UNCHANGED writers
    /\ UNCHANGED <<monVars, hVars>>

\* The publisher disconnects.
PeerClose(c) ==
    /\ conns[c].state \in {"AwaitingPublish", "Streaming"}
    /\ conns' = [conns EXCEPT ![c] = OnClose(@, "peer")]
    /\ UNCHANGED writers
    /\ UNCHANGED <<monVars, hVars>>

RtmpNext ==
    \/ \E c \in ConnIds : OnConnect(c)
    \/ \E c \in ConnIds, name \in Keys \cup {""} : OnPublish(c, name)
    \/ \E c \in ConnIds : NewEncoder(c)
    \/ \E c \in ConnIds, o \in ScriptOutcomes : OnSetDataFrame(c, o)
    \/ \E c \in ConnIds, o \in MediaOutcomes : OnAudio(c, o)
    \/ \E c \in ConnIds, o \in MediaOutcomes : OnVideo(c, o)
    \/ \E c \in ConnIds : PeerClose(c)

\* ------------------------------------------------------- specifications

vars == <<monVars, hVars, rVars>>

Init == MonitorInit /\ HandlerInit /\ RtmpInit

\* The admission controller on its own.
SpecMonitor == Init /\ [][MonitorNext]_vars

\* time.AfterFunc runs its callback once the delay has elapsed.
FairSpecMonitor == SpecMonitor /\ \A c \in CallIds : WF_vars(ReservationTimer(c))

\* One ingress handler and its callers on their own.
InitHandler == Init /\ idle = 30

SpecHandler == InitHandler /\ [][HandlerNext]_vars

\* The RTMP server and its connections on their own.
InitRtmp == Init /\ idle = 30

SpecRtmp == InitRtmp /\ [][RtmpNext]_vars

\* ------------------------------------------- admission controller: claims

\* The cost the configuration handed to Start gives an info's kind.
ConfiguredCost(info) ==
    CASE info.InputType = "RTMP_INPUT" -> conf.RTMPCpuCost
      [] info.InputType = "WHIP_INPUT" /\ info.BypassTranscoding ->
            conf.WHIPBypassTranscodingCpuCost
      [] info.InputType = "WHIP_INPUT" /\ ~info.BypassTranscoding ->
            conf.WHIPCpuCost
      [] OTHER -> 0

\* The admitted calls whose reservation has not been released yet.
LiveAdmitted == { c \in CallIds : calls[c].accept /\ calls[c].timer = "armed" }

RECURSIVE SumConfiguredCost(_)
SumConfiguredCost(S) ==
    IF S = {} THEN 0
    ELSE LET c == CHOOSE x \in S : TRUE
         IN ConfiguredCost(calls[c].info) + SumConfiguredCost(S \ {c})

\* C1: against one idle sample, the calls that returned true and whose
\* reservations are still pending never have a total configured cost above the
\* idle capacity: idle minus pending is never negative after admitting.
C1_NoOvercommit ==
    monitor = "started" => idle - SumConfiguredCost(LiveAdmitted) >= 0

\* C2: configured RTMP 2.0, WHIP 2.0, bypass 0.1 and idle 3.0: the first
\* TryAdmit(RTMP) returns true, and a second TryAdmit(RTMP), issued after the
\* first returned and decided before the first reservation decays, returns false.
C2_SecondRTMPRejected ==
    ( /\ conf = ScenarioConf
      /\ idle = 30
      /\ calls[1].pc = "returned" /\ calls[1].info.InputType = "RTMP_INPUT"
      /\ calls[2].pc = "returned" /\ calls[2].info.InputType = "RTMP_INPUT"
      /\ calls[2].sequential
      /\ calls[1].timer # "fired"
      /\ \A c \in CallIds : c > 2 => calls[c].pc = "new" )
    => (calls[1].accept /\ ~calls[2].accept)

\* C3: every reservation of a call that returned true is eventually released,
\* session or no session: from some point on pendingCPUs is zero and every
\* admitted call's release has run.
C3_ReservationsReleased ==
    <>[](/\ pendingCPUs = 0
         /\ \A c \in CallIds : calls[c].accept => calls[c].timer = "fired")

\* C3's case: an admitted call whose release has run.
C3_Witness ==
    \E c \in CallIds :
        calls[c].accept /\ calls[c].timer = "fired" /\ pendingCPUs = 0

\* C13: the comparisons are strict: a TryAdmit that finds idle minus pending
\* exactly equal to the configured cost of its descriptor returns false and
\* reserves nothing, and CanAcceptAny is false when idle minus pending equals
\* maxObservedCost.
C13_EqualIsRejected ==
    /\ \A c \in CallIds :
          ( /\ calls[c].pc = "returned"
            /\ calls[c].info.InputType \in {"RTMP_INPUT", "WHIP_INPUT"}
            /\ calls[c].available = ConfiguredCost(calls[c].info) )
          => (~calls[c].accept /\ calls[c].timer = "none")
    /\ (monitor = "started" /\ idle - pendingCPUs = maxCost) => ~CanAcceptIngress

\* The three configured costs.
Costs(c) == { c.RTMPCpuCost, c.WHIPCpuCost, c.WHIPBypassTranscodingCpuCost }

\* C14: Start fails for capacity exactly when the CPU count is below the
\* smallest configured cost; otherwise it succeeds and maxObservedCost is the
\* largest configured cost.
C14_CapacityCheck ==
    monitor # "new" =>
        /\ monitor = "failed" <=> \A x \in Costs(conf) : numCPU < x
        /\ monitor = "started" =>
              /\ maxCost \in Costs(conf)
              /\ \A x \in Costs(conf) : x <= maxCost

\* C14's case: Start succeeded on a node with fewer CPUs than the largest cost
\* and with a cost below its recommended minimum.
C14_Witness ==
    /\ monitor = "started"
    /\ numCPU < maxCost
    /\ conf.RTMPCpuCost < 10


\* ------------------------------------------------- ingress handler: claims

\* The calls that have triggered the cancellation signal (executed h.Kill()).
Triggered == { c \in RpcIds : callers[c].pc # "new" }

\* The updates sent from the session routine itself (buildPipeline's and the
\* supervision loop's), as opposed to the pipeline's status callback.
RoutineUpdates == SelectSeq(published, LAMBDA u : u.by = "routine")

TerminalStatuses == { "ENDPOINT_ERROR", "ENDPOINT_INACTIVE" }

\* C4: any number of triggers of the cancellation signal acts as one: the fuse
\* is broken exactly when some trigger happened, a trigger that finds it broken
\* changes nothing of the session, and the pipeline is asked for end-of-stream
\* at most once.
C4_KillIdempotent ==
    /\ [](eosCount <= 1 /\ (eosCount = 1 => kill) /\ (kill <=> Triggered # {}))
    /\ [][(kill /\ Triggered' # Triggered) => UNCHANGED sessionVars]_vars

\* C4's case: two triggers, one end-of-stream request, the session finished.
C4_Witness ==
    /\ Cardinality(Triggered) >= 2
    /\ eosCount = 1
    /\ hpc = "returned"
    /\ done

\* C5: a DeleteIngress issued before the pipeline is Running is not left
\* waiting: once HandleIngress has returned and no goroutine of it is left to
\* run, the done fuse it waits on has been broken.
C5_DoneFiredOnExit ==
    \A c \in RpcIds :
        ( /\ callers[c].op = "DeleteIngress"
          /\ callers[c].phase = "before"
          /\ hpc = "returned"
          /\ runner \in {"none", "finished"} )
        => done

\* C6: a state returned by UpdateIngress / DeleteIngress called while the
\* pipeline was running equals the state of the last update the session routine
\* sent before it returned.
C6_ReturnsLastPublished ==
    \A c \in RpcIds :
        ( /\ callers[c].op \in {"UpdateIngress", "DeleteIngress"}
          /\ callers[c].phase = "running"
          /\ callers[c].pc = "returned"
          /\ callers[c].err = "nil"
          /\ hpc = "returned" )
        => /\ published # <<>>
           /\ callers[c].state = published[Len(published)].state

\* C6's case: a call made while running has returned a state and the session
\* routine has sent its last update and returned.
C6_Witness ==
    \E c \in RpcIds :
        /\ callers[c].op = "UpdateIngress"
        /\ callers[c].phase = "running"
        /\ callers[c].pc = "returned"
        /\ callers[c].err = "nil"
        /\ hpc = "returned"
        /\ Len(published) >= 2

\* C7 as stated: when the only calls made are calls that ended with the
\* context error, the session is as if no call had been made: the cancellation
\* signal is untriggered and no end-of-stream was requested.
C7_TimeoutAsIfNotCalled ==
    ( /\ \E c \in RpcIds : callers[c].err = "ctx"
      /\ \A c \in RpcIds : callers[c].pc = "new" \/ callers[c].err = "ctx" )
    => (~kill /\ eosCount = 0)

\* C7 amended: the return with the context error happens only once the caller's
\* context is done, returns no state, and itself changes nothing of the
\* session: the cancellation the call triggered on entry stays in effect.
C7_TimeoutReturnIsLocal ==
    [][\A c \in RpcIds :
         /\ (callers[c].pc = "waiting" /\ callers'[c].err = "ctx")
            => /\ callers[c].ctxDone
               /\ callers'[c].state = "nil"
               /\ kill /\ kill'
               /\ UNCHANGED sessionVars
         /\ (callers[c].pc = "waiting" /\ callers'[c].pc = "returned" /\ ~done)
            => callers'[c].err = "ctx"]_vars

\* C7's case: a call has returned the context error while the pipeline is
\* still running, with the end-of-stream the call triggered already requested.
C7_Witness ==
    \E c \in RpcIds :
        /\ callers[c].err = "ctx"
        /\ callers[c].phase = "running"
        /\ ~done
        /\ runner = "running"
        /\ eosCount = 1

\* C8: when HandleIngress has returned, the session routine has sent exactly
\* one update and it carries a terminal status; after a failed build that update
\* is ENDPOINT_ERROR with the error's text, and no pipeline was set or run.
C8_OneTerminalUpdate ==
    hpc = "returned" =>
        /\ Len(RoutineUpdates) = 1
        /\ RoutineUpdates[1].state.Status \in TerminalStatuses
        /\ buildErr # "none" =>
            /\ RoutineUpdates[1].state = IngressState("ENDPOINT_ERROR", buildErr)
            /\ published = RoutineUpdates
            /\ pipeline = "nil"
            /\ runner = "none"
            /\ eosCount = 0

\* C8's case: HandleIngress has returned after a failed build.
C8_Witness ==
    /\ hpc = "returned"
    /\ buildErr = "pipeline error"
    /\ Len(published) = 1

\* The infos AcceptIngress's switch has a case for.
SupportedInfos == { i \in Infos : i.InputType \in {"RTMP_INPUT", "WHIP_INPUT"} }

\* C22: pendingCPUs is never negative and is the sum of the configured costs
\* of the admitted calls whose release has not run yet; a call that returned
\* false, an unsupported input type included, has reserved nothing and has no
\* release scheduled.
C22_PendingIsLiveSum ==
    /\ pendingCPUs >= 0
    /\ pendingCPUs = SumConfiguredCost(LiveAdmitted)
    /\ \A c \in CallIds :
          (calls[c].pc = "returned" /\ ~calls[c].accept) => calls[c].timer = "none"

\* C23: with configured costs that are not negative, maxCost is at least the
\* cost AcceptIngress compares with for every supported info, so whenever
\* CanAcceptIngress is true AcceptIngress, evaluated on the same idle sample and
\* pendingCPUs, accepts every supported info; and a call that read an available
\* amount above maxCost returns true.
C23_CoarseImpliesSpecific ==
    monitor = "started" =>
        /\ \A i \in SupportedInfos : maxCost >= CpuHold(i)
        /\ CanAcceptIngress =>
              \A i \in SupportedInfos : Accept(i, idle - pendingCPUs)
        /\ \A c \in CallIds :
              ( /\ calls[c].pc = "returned"
                /\ calls[c].info \in SupportedInfos
                /\ calls[c].available > maxCost )
              => calls[c].accept

\* C23's case: CanAcceptIngress is true and calls for RTMP and for WHIP with
\* transcoding bypassed, which read an available amount above maxCost, have
\* returned true.
C23_Witness ==
    /\ monitor = "started"
    /\ CanAcceptIngress
    /\ \E c, d \in CallIds :
          /\ calls[c].pc = "returned" /\ calls[c].accept
          /\ calls[c].info = [InputType |-> "RTMP_INPUT", BypassTranscoding |-> FALSE]
          /\ calls[c].available > maxCost
          /\ calls[d].pc = "returned" /\ calls[d].accept
          /\ calls[d].info = [InputType |-> "WHIP_INPUT", BypassTranscoding |-> TRUE]
          /\ calls[d].available > maxCost

\* The pipeline's Run has returned.
RunReturned == runner \in {"sent", "finished"}

\* C15: a DeleteIngress issued while the pipeline is running, with a context
\* that does not expire, whose pipeline then ends cleanly: the call returns
\* no error and the clean final state, and no update published for the session,
\* by the pipeline or by the session routine, carries ENDPOINT_ERROR.
C15_CleanDeleteNoError ==
    \A c \in RpcIds :
        ( /\ callers[c].op = "DeleteIngress"
          /\ callers[c].phase = "running"
          /\ ~callers[c].ctxDone
          /\ RunReturned
          /\ pipelineState.Status = "ENDPOINT_INACTIVE" )
        => /\ callers[c].err = "nil"
           /\ callers[c].pc = "returned" =>
                 callers[c].state = IngressState("ENDPOINT_INACTIVE", "")
           /\ \A i \in 1..Len(published) :
                 published[i].state.Status # "ENDPOINT_ERROR"
           /\ hpc = "returned" => RoutineUpdates[1].state = pipelineState

\* C15's case: the DeleteIngress made while running has returned the clean
\* final state, and the final update was sent and delivered.
C15_Witness ==
    \E c \in RpcIds :
        /\ callers[c].op = "DeleteIngress"
        /\ callers[c].phase = "running"
        /\ ~callers[c].ctxDone
        /\ callers[c].pc = "returned"
        /\ callers[c].state = IngressState("ENDPOINT_INACTIVE", "")
        /\ hpc = "returned"
        /\ published[Len(published)].delivered

\* C16: whenever the done fuse is broken, so that a waiting UpdateIngress /
\* DeleteIngress can return, the session routine has already sent the terminal
\* update.
C16_PublishedBeforeDone ==
    done =>
        /\ RoutineUpdates # <<>>
        /\ RoutineUpdates[1].state.Status \in TerminalStatuses

\* C17: with a pipeline running, the kill case of the select is taken at most
\* once, exactly when the watched channel has been set to nil; taking it sends
\* one end-of-stream request and nothing else: the loop keeps waiting, nothing
\* is published and the pipeline goes on running. HandleIngress returns and
\* sends the terminal update only after Run has returned, and Run's goroutine
\* ends only by Run returning.
C17_KillThenAwaitResult ==
    /\ []( /\ eosCount <= 1
           /\ buildErr = "none" =>
                 /\ (killCh = "nil" /\ hpc # "new" /\ hpc # "building") <=> eosCount = 1
                 /\ (hpc = "returned" \/ RoutineUpdates # <<>>) => RunReturned
                 /\ hpc = "returned" => result = <<>> )
    /\ [][ /\ eosCount' # eosCount =>
                 /\ kill /\ runner' = runner
                 /\ hpc = "watching" /\ hpc' = "watching"
                 /\ published' = published /\ pipelineState' = pipelineState
           /\ (runner = "running" /\ runner' # "running") =>
                 (runner' = "sent" /\ result' = <<pipelineState'>>) ]_vars

\* C17's case: the end-of-stream was requested while the pipeline was running
\* and HandleIngress returned after Run's result.
C17_Witness ==
    /\ eosCount = 1
    /\ hpc = "returned"
    /\ runner = "finished"
    /\ \E c \in RpcIds : callers[c].phase = "running"

\* C18: an update is sent with one delivery attempt, and an attempt that fails
\* has the effect of one that succeeds: the session's state is the state that
\* was sent, the session routine's update ends HandleIngress, it is never sent
\* twice, done is broken once Run's goroutine has ended, and the calls that
\* return a state return the final one.
C18_DeliveryFailureIgnored ==
    /\ []( /\ Len(RoutineUpdates) <= 1
           /\ RoutineUpdates # <<>> => hpc = "returned"
           /\ runner = "finished" => done
           /\ \A c \in RpcIds :
                 ( /\ callers[c].op \in {"UpdateIngress", "DeleteIngress"}
                   /\ callers[c].pc = "returned"
                   /\ callers[c].err = "nil" )
                 => (callers[c].state = pipelineState /\ RunReturned) )
    /\ [][ published' # published =>
               /\ Len(published') = Len(published) + 1
               /\ SubSeq(published', 1, Len(published)) = published
               /\ published'[Len(published')].state = pipelineState'
               /\ published'[Len(published')].by = "routine" =>
                     (pipelineState' = pipelineState \/ hpc = "building") ]_vars

\* C18's case: the terminal update was not delivered; done is broken and a call
\* has returned the final state.
C18_Witness ==
    /\ RoutineUpdates # <<>>
    /\ ~RoutineUpdates[1].delivered
    /\ done
    /\ \E c \in RpcIds :
          /\ callers[c].op = "UpdateIngress"
          /\ callers[c].pc = "returned"
          /\ callers[c].err = "nil"
          /\ callers[c].state = pipelineState

\* --------------------------------------------- RTMP publish session: claims

\* The connection received a message of this type that could not be decoded.
HasUndecodable(c, type) ==
    \E i \in 1..Len(conns[c].msgs) :
        conns[c].msgs[i].TagType = type /\ conns[c].msgs[i].outcome = "decode error"

\* C9: a connection whose publish command had an empty stream key is closed,
\* has stored no sink in the registry, has no encoder and never streamed.
C9_EmptyKeyRejected ==
    \A c \in ConnIds :
        conns[c].cause = "empty key" =>
            /\ conns[c].state = "Closed"
            /\ ~conns[c].flvEnc
            /\ conns[c].ingressId = ""
            /\ conns[c].msgs = <<>> /\ conns[c].out = <<>>
            /\ \A k \in Keys : writers[k] # c

\* C9's case: a publish with an empty key was rejected while another
\* connection's sink is registered.
C9_Witness ==
    \E c, d \in ConnIds :
        /\ conns[c].cause = "empty key"
        /\ conns[d].state = "Streaming"
        /\ \E k \in Keys : writers[k] = d

\* C10 as stated: an undecodable audio tag never closes the session, an
\* undecodable video tag does.
C10_AudioSurvivesVideoCloses ==
    \A c \in ConnIds :
        /\ conns[c].cause # "audio decode error"
        /\ HasUndecodable(c, "Video") => conns[c].state = "Closed"

\* C10 amended: an undecodable audio tag closes the session with a hard error,
\* exactly as an undecodable video tag does.
C10_UndecodableMediaCloses ==
    \A c \in ConnIds :
        /\ HasUndecodable(c, "Audio") =>
              conns[c].state = "Closed" /\ conns[c].cause = "audio decode error"
        /\ HasUndecodable(c, "Video") =>
              conns[c].state = "Closed" /\ conns[c].cause = "video decode error"

\* C10's case: a stream that delivered tags and was then closed by one
\* undecodable audio tag.
C10_Witness ==
    \E c \in ConnIds :
        /\ conns[c].cause = "audio decode error"
        /\ conns[c].out # <<>>
        /\ Len(conns[c].msgs) = Len(conns[c].out) + 1

\* C11: Closed is terminal and the registry holds no sink that belongs to a
\* closed session.
C11_ClosedSinkRemoved ==
    \A k \in Keys :
        writers[k] # NoConn => conns[writers[k]].state # "Closed"

\* C12: a publish whose non-empty stream key resolves to no known ingress is
\* fatal to the connection: it never streams and no sink is registered for
\* that key.
C12_UnknownKeyRejected ==
    /\ \A c \in ConnIds :
          conns[c].ingressId \notin KnownKeys => conns[c].state # "Streaming"
    /\ \A k \in Keys \ KnownKeys : writers[k] = NoConn

\* C19: the sink is stored under the session's ingress id before the encoder
\* is created and before any message of the session is handled: the step that
\* accepts a publish stores the sink and creates no encoder, the encoder is
\* created only with a sink stored under the id, and a session that has an
\* encoder, has received a message or has written a tag has a sink stored
\* under its id.
C19_SinkStoredFirst ==
    /\ [](\A c \in ConnIds :
            (conns[c].flvEnc \/ conns[c].msgs # <<>> \/ conns[c].out # <<>>)
            => /\ conns[c].ingressId \in Keys
               /\ writers[conns[c].ingressId] # NoConn)
    /\ [][\A c \in ConnIds :
            /\ (conns[c].state = "AwaitingPublish" /\ conns'[c].state = "Publishing")
               => /\ writers'[conns'[c].ingressId] = c
                  /\ ~conns'[c].flvEnc
            /\ (~conns[c].flvEnc /\ conns'[c].flvEnc)
               => /\ conns[c].ingressId \in Keys
                  /\ writers[conns[c].ingressId] # NoConn
                  /\ conns[c].msgs = <<>> ]_vars

\* C19's case: a session with its sink stored under its id has written tags.
C19_Witness ==
    \E c \in ConnIds :
        /\ conns[c].state = "Streaming"
        /\ Len(conns[c].out) >= 2
        /\ writers[conns[c].ingressId] = c

\* The tags of the messages that were decoded, copied and encoded, in the
\* order the messages arrived.
Forwarded(msgs) ==
    LET ok == SelectSeq(msgs, LAMBDA m : m.outcome = "ok")
    IN [i \in 1..Len(ok) |-> FlvTag(ok[i].TagType, ok[i].Timestamp)]

\* C20: what a session has written is, tag for tag and in order, the type and
\* timestamp of the messages it received that were written; a step handles at
\* most one message and writes at most one tag, that message's, at the end of
\* what was written before.
C20_ArrivalOrder ==
    /\ [](\A c \in ConnIds : conns[c].out = Forwarded(conns[c].msgs))
    /\ [][\A c \in ConnIds :
            LET m == conns[c].msgs
                n == conns'[c].msgs
            IN /\ n = m \/ (Len(n) = Len(m) + 1 /\ SubSeq(n, 1, Len(m)) = m)
               /\ \/ conns'[c].out = conns[c].out
                  \/ /\ n # m
                     /\ conns[c].state = "Streaming"
                     /\ conns'[c].out =
                           Append(conns[c].out,
                                  FlvTag(n[Len(n)].TagType, n[Len(n)].Timestamp)) ]_vars

\* C20's case: a session received three messages of which one was skipped and
\* wrote the tags of the two others, of different types.
C20_Witness ==
    \E c \in ConnIds :
        /\ Len(conns[c].msgs) = 3
        /\ conns[c].msgs[2].outcome # "ok"
        /\ Len(conns[c].out) = 2
        /\ conns[c].out[1].TagType # conns[c].out[2].TagType

\* A message the handler skips: its tag could not be encoded, or it is a
\* metadata message that could not be decoded.
Skipped(m) ==
    \/ m.outcome = "encode error"
    \/ m.TagType = "ScriptData" /\ m.outcome = "decode error"

\* C21: a tag that cannot be encoded, and a metadata message that cannot be
\* decoded, never close the session: the step that handles it writes nothing
\* and leaves the session Streaming with no error recorded, and a session is
\* only ever closed by the peer, by an empty key, or by its last message being
\* an audio or video message that could not be decoded or copied.
C21_SkippedTagKeepsSession ==
    /\ [](\A c \in ConnIds :
            conns[c].state = "Closed" =>
               \/ conns[c].cause \in {"peer", "empty key"}
               \/ /\ conns[c].msgs # <<>>
                  /\ LET m == conns[c].msgs[Len(conns[c].msgs)]
                     IN /\ ~Skipped(m)
                        /\ m.TagType \in {"Audio", "Video"}
                        /\ m.outcome \in {"decode error", "copy error"})
    /\ [][\A c \in ConnIds :
            ( /\ Len(conns'[c].msgs) = Len(conns[c].msgs) + 1
              /\ Skipped(conns'[c].msgs[Len(conns'[c].msgs)]) )
            => /\ conns[c].state = "Streaming"
               /\ conns'[c].state = "Streaming"
               /\ conns'[c].cause = "none"
               /\ conns'[c].out = conns[c].out ]_vars

\* C21's case: a session skipped a tag it could not encode and a metadata
\* message it could not decode, and then wrote the tag of a third message.
C21_Witness ==
    \E c \in ConnIds :
        /\ conns[c].state = "Streaming"
        /\ Len(conns[c].msgs) = 3
        /\ conns[c].msgs[1].outcome = "encode error"
        /\ conns[c].msgs[2].TagType = "ScriptData"
        /\ conns[c].msgs[2].outcome = "decode error"
        /\ Len(conns[c].out) = 1

====
